---- MODULE Spec2Model ----
(***************************************************************************)
(* Model of the query compiler of video_analytics_nl_bot:                  *)
(* analytics/query_builder.py (QueryBuilder) over the request model of     *)
(* nl/schemas.py.                                                          *)
(*                                                                         *)
(* SQL text is modelled as a sequence of tokens (keywords, table names,    *)
(* column references with an optional qualifier, operators, numbered       *)
(* placeholders), in the order in which the f-strings of the source lay    *)
(* them out.  Python values (parameters, parsed dates) are records with a  *)
(* type tag.  A raised exception is a result record with ok = FALSE.       *)
(*                                                                         *)
(* Three specifications share the variables: Spec compiles one request;    *)
(* SpecPipeline follows one message through bot/handlers.py                *)
(* (handle_message), nl/parser.py (parse_query) and analytics/executor.py  *)
(* (execute_query); SpecCalls interleaves the steps of several             *)
(* invocations of build_sql.                                               *)
(***************************************************************************)
EXTENDS Integers, Sequences, FiniteSets, TLC

VARIABLES
    query,        \* the QueryRequest being compiled
    result,       \* what build_sql returned or raised
    pc,           \* where handle_message stands
    message,      \* message.text of the incoming message
    config,       \* LLM_PROVIDER and LLM_API_KEY of bot.config
    response,     \* content of the last response of the LLM
    llm_calls,    \* the chat.completions.create calls made, in order
    events,       \* the stages entered, in order
    fetched,      \* what conn.fetchval gave
    exec_result,  \* what QueryExecutor.execute_query returned
    replies,      \* the message.answer calls made, in order
    calls         \* the build_sql invocations in progress

vars == <<query, result, pc, message, config, response, llm_calls, events,
          fetched, exec_result, replies, calls>>

\* The variables of handle_message, and those of the concurrent invocations.
handler_vars ==
    <<pc, message, config, response, llm_calls, events, fetched, exec_result, replies>>

-----------------------------------------------------------------------------
(* Python values *)

\* Optional[str] / Optional[Enum]: the value None.
NoneStr == "<None>"

\* Truthiness of an Optional[str] (`if x:`): None and "" are falsy.
Truthy(x) == x # NoneStr /\ x # ""

PyValue(ty, s, i, y, mo, d, h, mi, sec, us, tz) ==
    [ty |-> ty, s |-> s, i |-> i, y |-> y, mo |-> mo, d |-> d,
     h |-> h, mi |-> mi, sec |-> sec, us |-> us, tz |-> tz]

PStr(s) == PyValue("str", s, 0, 0, 0, 0, 0, 0, 0, 0, "")

PInt(i) == PyValue("int", "", i, 0, 0, 0, 0, 0, 0, 0, "")

\* The value None, and the place of a value not yet returned.
PNone == PyValue("none", "", 0, 0, 0, 0, 0, 0, 0, 0, "")

NotReturned == PyValue("unset", "", 0, 0, 0, 0, 0, 0, 0, 0, "")

\* datetime.date(y, mo, d)
PDate(y, mo, d) == PyValue("date", "", 0, y, mo, d, 0, 0, 0, 0, "")

\* datetime.datetime(y, mo, d, h, mi, sec, us, tzinfo); tz = "" is naive.
PDateTime(y, mo, d, h, mi, sec, us, tz) ==
    PyValue("datetime", "", 0, y, mo, d, h, mi, sec, us, tz)

\* isinstance(v, datetime)
IsDateTime(v) == v.ty = "datetime"

\* isinstance(v, date): datetime is a subclass of date.
IsDate(v) == v.ty \in {"date", "datetime"}

\* A returned value, and a raised ValueError with the message it carries.
Ok(v) == [ok |-> TRUE, v |-> v, err |-> ""]

Raise(e) == [ok |-> FALSE, v |-> PStr(""), err |-> e]

-----------------------------------------------------------------------------
(* Calendar of the datetime library *)

IsLeap(y) == (y % 4 = 0 /\ y % 100 # 0) \/ y % 400 = 0

DaysInMonth(y, mo) ==
    IF mo = 2 THEN (IF IsLeap(y) THEN 29 ELSE 28)
    ELSE IF mo \in {4, 6, 9, 11} THEN 30 ELSE 31

ValidDate(y, mo, d) ==
    /\ y \in 1..9999
    /\ mo \in 1..12
    /\ d \in 1..DaysInMonth(y, mo)

\* datetime.replace(day=...): ValueError when the day is not in the month.
ReplaceDay(dt, day) ==
    IF ValidDate(dt.y, dt.mo, day)
    THEN Ok([dt EXCEPT !.d = day])
    ELSE Raise("day is out of range for month")

-----------------------------------------------------------------------------
(* Date strings of a DateFilter (Optional[str]) *)

\* kind "None" is None, "empty" is "", "garbage" is a text no format reads,
\* "text" is Y-M-D optionally followed by sep ("T" or " "), H:M:S and tz.
\* pad = FALSE: month or day written without its leading zero ("2025-1-31").
DateStr(kind, pad, sep, y, mo, d, h, mi, sec, tz) ==
    [kind |-> kind, pad |-> pad, sep |-> sep, y |-> y, mo |-> mo, d |-> d,
     h |-> h, mi |-> mi, sec |-> sec, tz |-> tz]

NoneDate == DateStr("None", TRUE, "", 0, 0, 0, 0, 0, 0, "")

EmptyDate == DateStr("empty", TRUE, "", 0, 0, 0, 0, 0, 0, "")

GarbageDate == DateStr("garbage", TRUE, "", 0, 0, 0, 0, 0, 0, "")

BareDate(pad, y, mo, d) == DateStr("text", pad, "", y, mo, d, 0, 0, 0, "")

\* `if date_filter.exact_date:` and the like
TruthyDate(ds) == ds.kind \notin {"None", "empty"}

\* 'T' in date_str or ' ' in date_str
HasTimeSep(ds) == ds.kind = "text" /\ ds.sep \in {"T", " "}

\* date_str.replace('Z', '+00:00')
ReplaceZ(ds) == IF ds.tz = "Z" THEN [ds EXCEPT !.tz = "+00:00"] ELSE ds

\* datetime.fromisoformat: zero-padded fields, separator, optional offset.
datetime_fromisoformat(ds) ==
    IF /\ ds.kind = "text"
       /\ ds.sep \in {"T", " "}
       /\ ds.pad
       /\ ds.tz \in {"", "+00:00"}
       /\ ValidDate(ds.y, ds.mo, ds.d)
    THEN Ok(PDateTime(ds.y, ds.mo, ds.d, ds.h, ds.mi, ds.sec, 0, ds.tz))
    ELSE Raise("invalid format")

\* date.fromisoformat: a zero-padded calendar date and nothing else.
date_fromisoformat(ds) ==
    IF /\ ds.kind = "text"
       /\ ds.sep = ""
       /\ ds.pad
       /\ ValidDate(ds.y, ds.mo, ds.d)
    THEN Ok(PDate(ds.y, ds.mo, ds.d))
    ELSE Raise("invalid format")

\* datetime.strptime(date_str, fmt) for the three formats of the fallback
\* loop, named by their separator: "T", " " and "" (date only).  strptime
\* reads unpadded fields, reads no offset, and always returns a datetime.
strptime(ds, fmt) ==
    IF /\ ds.kind = "text"
       /\ ds.sep = fmt
       /\ ds.tz = ""
       /\ ValidDate(ds.y, ds.mo, ds.d)
    THEN Ok(PDateTime(ds.y, ds.mo, ds.d, ds.h, ds.mi, ds.sec, 0, ""))
    ELSE Raise("invalid format")

\* The formats of the fallback loop, in order.
FallbackFormats == <<"T", " ", "">>

RECURSIVE TryFormats(_, _)
TryFormats(ds, i) ==
    IF i > Len(FallbackFormats) THEN Raise("cannot parse date")
    ELSE IF strptime(ds, FallbackFormats[i]).ok
         THEN strptime(ds, FallbackFormats[i])
         ELSE TryFormats(ds, i + 1)

\* QueryBuilder._parse_date_or_datetime.  A DateFilter field is a str, so
\* the isinstance shortcut of its first lines is never taken.
_parse_date_or_datetime(ds) ==
    LET first == IF HasTimeSep(ds)
                 THEN datetime_fromisoformat(ReplaceZ(ds))
                 ELSE date_fromisoformat(ds)
    IN  IF first.ok THEN first ELSE TryFormats(ds, 1)

-----------------------------------------------------------------------------
(* SQL text *)

Tok(k, q, v, n) == [k |-> k, q |-> q, v |-> v, n |-> n]

Kw(s) == Tok("kw", "", s, 0)

Tbl(t) == Tok("tbl", "", t, 0)

\* A column reference; q = "" when it is written without a table qualifier.
Col(q, c) == Tok("col", q, c, 0)

Op(o) == Tok("op", "", o, 0)

\* The placeholder $i
Ph(i) == Tok("ph", "", "$", i)

\* DATE(<field>)
DateOf(field) == <<Kw("DATE("), field, Kw(")")>>

-----------------------------------------------------------------------------
(* QueryBuilder._build_date_filter *)

FilterOk(where, params, param_index) ==
    [ok |-> TRUE, where |-> where, params |-> params,
     param_index |-> param_index, err |-> ""]

FilterRaise(e) ==
    [ok |-> FALSE, where |-> <<>>, params |-> <<>>, param_index |-> 0, err |-> e]

\* date_obj.replace(hour=0, minute=0, second=0, microsecond=0)
StartOfDay(dt) == [dt EXCEPT !.h = 0, !.mi = 0, !.sec = 0, !.us = 0]

\* start_dt.replace(day=start_dt.day + 1)
NextDay(start_dt) == ReplaceDay(start_dt, start_dt.d + 1)

\* datetime.combine(d, datetime.min.time())
CombineMin(d) == PDateTime(d.y, d.mo, d.d, 0, 0, 0, 0, "")

\* datetime.combine(d, datetime.max.time())
CombineMax(d) == PDateTime(d.y, d.mo, d.d, 23, 59, 59, 999999, "")

\* Mutant of ExactDateFilter: a date-only value gets the one-day window too.
ExactDateFilterAlwaysWindow(field, exact_date, param_index) ==
    LET parsed == _parse_date_or_datetime(exact_date)
        date_obj == IF IsDateTime(parsed.v) THEN parsed.v ELSE CombineMin(parsed.v)
        start_dt == StartOfDay(date_obj)
        end_dt == NextDay(start_dt)
    IN  IF ~parsed.ok THEN FilterRaise(parsed.err)
        ELSE IF ~end_dt.ok THEN FilterRaise(end_dt.err)
        ELSE FilterOk(<<field, Op(">="), Ph(param_index), Kw("AND"),
                        field, Op("<"), Ph(param_index + 1)>>,
                      <<start_dt, end_dt.v>>, param_index + 2)

\* The exact_date branch.
ExactDateFilter(field, exact_date, param_index) ==
    LET parsed == _parse_date_or_datetime(exact_date)
        date_obj == parsed.v
        start_dt == StartOfDay(date_obj)
        end_dt == NextDay(start_dt)
    IN  IF ~parsed.ok THEN FilterRaise(parsed.err)
        ELSE IF IsDateTime(date_obj)
        THEN IF ~end_dt.ok THEN FilterRaise(end_dt.err)
             ELSE FilterOk(<<field, Op(">="), Ph(param_index), Kw("AND"),
                             field, Op("<"), Ph(param_index + 1)>>,
                           <<start_dt, end_dt.v>>, param_index + 2)
        ELSE FilterOk(DateOf(field) \o <<Op("="), Ph(param_index)>>,
                      <<date_obj>>, param_index + 1)

\* The start_date and end_date branch.
RangeDateFilter(field, start_date, end_date, param_index) ==
    LET ps == _parse_date_or_datetime(start_date)
        pe == _parse_date_or_datetime(end_date)
        start_obj == IF IsDate(ps.v) /\ ~IsDateTime(ps.v)
                     THEN CombineMin(ps.v) ELSE ps.v
        end_obj == IF IsDate(pe.v) /\ ~IsDateTime(pe.v)
                   THEN CombineMax(pe.v) ELSE pe.v
    IN  IF ~ps.ok THEN FilterRaise(ps.err)
        ELSE IF ~pe.ok THEN FilterRaise(pe.err)
        ELSE IF IsDateTime(ps.v) \/ IsDateTime(pe.v)
        THEN FilterOk(<<field, Op(">="), Ph(param_index), Kw("AND"),
                        field, Op("<="), Ph(param_index + 1)>>,
                      <<start_obj, end_obj>>, param_index + 2)
        ELSE FilterOk(DateOf(field) \o <<Op(">="), Ph(param_index), Kw("AND")>>
                        \o DateOf(field) \o <<Op("<="), Ph(param_index + 1)>>,
                      <<ps.v, pe.v>>, param_index + 2)

\* The start_date only branch.
StartDateFilter(field, start_date, param_index) ==
    LET parsed == _parse_date_or_datetime(start_date)
        date_obj == parsed.v
    IN  IF ~parsed.ok THEN FilterRaise(parsed.err)
        ELSE IF IsDateTime(date_obj)
        THEN FilterOk(<<field, Op(">="), Ph(param_index)>>,
                      <<date_obj>>, param_index + 1)
        ELSE FilterOk(DateOf(field) \o <<Op(">="), Ph(param_index)>>,
                      <<date_obj>>, param_index + 1)

\* Mutant of EndBound: the bound is never moved to the end of the day.
EndBoundUnchanged(date_obj) == date_obj

\* The end bound of the end_date only branch: a datetime whose hour and
\* minute are both 0 gets hour=23, minute=59, second=59.
EndBound(date_obj) ==
    IF IsDateTime(date_obj) /\ date_obj.h = 0 /\ date_obj.mi = 0
    THEN [date_obj EXCEPT !.h = 23, !.mi = 59, !.sec = 59]
    ELSE date_obj

\* The end_date only branch.
EndDateFilter(field, end_date, param_index) ==
    LET parsed == _parse_date_or_datetime(end_date)
        date_obj == parsed.v
    IN  IF ~parsed.ok THEN FilterRaise(parsed.err)
        ELSE IF IsDateTime(date_obj)
        THEN FilterOk(<<field, Op("<="), Ph(param_index)>>,
                      <<EndBound(date_obj)>>, param_index + 1)
        ELSE FilterOk(DateOf(field) \o <<Op("<="), Ph(param_index)>>,
                      <<date_obj>>, param_index + 1)

\* Mutant of _build_date_filter: a date filter with no date adds no condition
\* instead of raising.
_build_date_filter_empty_is_unfiltered(date_filter, param_index) ==
    LET field == date_filter.field
    IN  IF TruthyDate(date_filter.exact_date)
        THEN ExactDateFilter(field, date_filter.exact_date, param_index)
        ELSE IF TruthyDate(date_filter.start_date) /\ TruthyDate(date_filter.end_date)
        THEN RangeDateFilter(field, date_filter.start_date, date_filter.end_date,
                             param_index)
        ELSE IF TruthyDate(date_filter.start_date)
        THEN StartDateFilter(field, date_filter.start_date, param_index)
        ELSE IF TruthyDate(date_filter.end_date)
        THEN EndDateFilter(field, date_filter.end_date, param_index)
        ELSE FilterOk(<<Kw("TRUE")>>, <<>>, param_index)

\* Mutant of _build_date_filter: the range is tested before exact_date.
_build_date_filter_range_first(date_filter, param_index) ==
    LET field == date_filter.field
    IN  IF TruthyDate(date_filter.start_date) /\ TruthyDate(date_filter.end_date)
        THEN RangeDateFilter(field, date_filter.start_date, date_filter.end_date,
                             param_index)
        ELSE IF TruthyDate(date_filter.exact_date)
        THEN ExactDateFilter(field, date_filter.exact_date, param_index)
        ELSE IF TruthyDate(date_filter.start_date)
        THEN StartDateFilter(field, date_filter.start_date, param_index)
        ELSE IF TruthyDate(date_filter.end_date)
        THEN EndDateFilter(field, date_filter.end_date, param_index)
        ELSE FilterRaise("date_filter must contain a date")

_build_date_filter(date_filter, param_index) ==
    LET field == date_filter.field
    IN  IF TruthyDate(date_filter.exact_date)
        THEN ExactDateFilter(field, date_filter.exact_date, param_index)
        ELSE IF TruthyDate(date_filter.start_date) /\ TruthyDate(date_filter.end_date)
        THEN RangeDateFilter(field, date_filter.start_date, date_filter.end_date,
                             param_index)
        ELSE IF TruthyDate(date_filter.start_date)
        THEN StartDateFilter(field, date_filter.start_date, param_index)
        ELSE IF TruthyDate(date_filter.end_date)
        THEN EndDateFilter(field, date_filter.end_date, param_index)
        ELSE FilterRaise("date_filter must contain a date")

-----------------------------------------------------------------------------
(* QueryBuilder._build_comparison_filter *)

\* Mutant of valid_operators: the SQL spelling of "not equal" is let through.
valid_operators_with_sql_ne == {">", "<", ">=", "<=", "=", "!=", "<>"}

valid_operators == {">", "<", ">=", "<=", "=", "!="}

\* field is field_override, which build_sql always passes.
_build_comparison_filter(comparison_filter, param_index, field) ==
    LET operator == comparison_filter.operator
        value == comparison_filter.value
    IN  IF operator \notin valid_operators
        THEN FilterRaise("invalid operator")
        ELSE FilterOk(<<field, Op(operator), Ph(param_index)>>,
                      <<PInt(value)>>, param_index + 1)

-----------------------------------------------------------------------------
(* QueryBuilder._build_select *)

\* f"{table_name}.{field}" if table_name else field
Qualified(table_name, field) ==
    IF Truthy(table_name) THEN Col(table_name, field) ELSE Col("", field)

\* Mutant of _build_select: DISTINCT_COUNT does not test for its field.
_build_select_distinct_unchecked(q, table_name) ==
    LET metric_type == q.metric_type
        field == q.metric_field
    IN  IF metric_type = "count"
        THEN Ok(<<Kw("SELECT"), Kw("COUNT(*)")>>)
        ELSE IF metric_type = "sum"
        THEN IF ~Truthy(field)
             THEN Raise("metric_field is required for SUM")
             ELSE Ok(<<Kw("SELECT"), Kw("SUM("), Qualified(table_name, field), Kw(")")>>)
        ELSE IF metric_type = "distinct_count"
        THEN IF field = "video_created_at_date"
             THEN Ok(<<Kw("SELECT"), Kw("COUNT(DISTINCT")>>
                       \o DateOf(Qualified(table_name, "video_created_at"))
                       \o <<Kw(")")>>)
             ELSE IF field = "created_at_date"
             THEN Ok(<<Kw("SELECT"), Kw("COUNT(DISTINCT")>>
                       \o DateOf(Qualified(table_name, "created_at"))
                       \o <<Kw(")")>>)
             ELSE Ok(<<Kw("SELECT"), Kw("COUNT(DISTINCT"),
                       Qualified(table_name, field), Kw(")")>>)
        ELSE Raise("unknown metric type")

_build_select(q, table_name) ==
    LET metric_type == q.metric_type
        field == q.metric_field
    IN  IF metric_type = "count"
        THEN Ok(<<Kw("SELECT"), Kw("COUNT(*)")>>)
        ELSE IF metric_type = "sum"
        THEN IF ~Truthy(field)
             THEN Raise("metric_field is required for SUM")
             ELSE Ok(<<Kw("SELECT"), Kw("SUM("), Qualified(table_name, field), Kw(")")>>)
        ELSE IF metric_type = "distinct_count"
        THEN IF ~Truthy(field)
             THEN Raise("metric_field is required for DISTINCT_COUNT")
             ELSE IF field = "video_created_at_date"
             THEN Ok(<<Kw("SELECT"), Kw("COUNT(DISTINCT")>>
                       \o DateOf(Qualified(table_name, "video_created_at"))
                       \o <<Kw(")")>>)
             ELSE IF field = "created_at_date"
             THEN Ok(<<Kw("SELECT"), Kw("COUNT(DISTINCT")>>
                       \o DateOf(Qualified(table_name, "created_at"))
                       \o <<Kw(")")>>)
             ELSE Ok(<<Kw("SELECT"), Kw("COUNT(DISTINCT"),
                       Qualified(table_name, field), Kw(")")>>)
        ELSE Raise("unknown metric type")

-----------------------------------------------------------------------------
(* QueryBuilder.build_sql *)

table_name_map(table) ==
    CASE table = "videos" -> "videos"
      [] table = "snapshots" -> "video_snapshots"

\* Mutant of needs_join: the table is not looked at.
needs_join_any_table(q, table_name) ==
    Truthy(q.creator_id_filter)

\* needs_join = query.creator_id_filter and table_name == "video_snapshots"
needs_join(q, table_name) ==
    Truthy(q.creator_id_filter) /\ table_name = "video_snapshots"

\* select_table = table_name if needs_join else None
select_table(q, table_name) ==
    IF needs_join(q, table_name) THEN table_name ELSE NoneStr

from_part(q, table_name) ==
    IF needs_join(q, table_name)
    THEN <<Kw("FROM"), Tbl(table_name), Kw("INNER JOIN"), Tbl("videos"), Kw("ON"),
           Col(table_name, "video_id"), Op("="), Col("videos", "id")>>
    ELSE <<Kw("FROM"), Tbl(table_name)>>

\* The accumulators where_parts, params and param_index of build_sql.
Acc(where_parts, params, param_index) ==
    [ok |-> TRUE, where_parts |-> where_parts, params |-> params,
     param_index |-> param_index, err |-> ""]

AccRaise(e) ==
    [ok |-> FALSE, where_parts |-> <<>>, params |-> <<>>, param_index |-> 0, err |-> e]

\* date_filter_with_table: the filter rebuilt with its field qualified.
date_filter_with_table(q, table_name) ==
    [q.date_filter EXCEPT
        !.field = IF needs_join(q, table_name)
                  THEN Col(table_name, q.date_filter.field)
                  ELSE Col("", q.date_filter.field)]

\* "Filter by date"
DateStep(q, table_name, acc) ==
    LET f == _build_date_filter(date_filter_with_table(q, table_name), acc.param_index)
    IN  IF ~q.date_filter.present THEN acc
        ELSE IF ~f.ok THEN AccRaise(f.err)
        ELSE Acc(Append(acc.where_parts, f.where), acc.params \o f.params, f.param_index)

\* Mutant of CreatorStep: param_index is not advanced.
CreatorStepNoIncrement(q, table_name, acc) ==
    IF needs_join(q, table_name)
    THEN Acc(Append(acc.where_parts,
                    <<Col("videos", "creator_id"), Op("="), Ph(acc.param_index)>>),
             Append(acc.params, PStr(q.creator_id_filter)), acc.param_index)
    ELSE IF Truthy(q.creator_id_filter)
    THEN Acc(Append(acc.where_parts,
                    <<Col("", "creator_id"), Op("="), Ph(acc.param_index)>>),
             Append(acc.params, PStr(q.creator_id_filter)), acc.param_index)
    ELSE acc

\* "Filter by creator_id"
CreatorStep(q, table_name, acc) ==
    IF needs_join(q, table_name)
    THEN Acc(Append(acc.where_parts,
                    <<Col("videos", "creator_id"), Op("="), Ph(acc.param_index)>>),
             Append(acc.params, PStr(q.creator_id_filter)), acc.param_index + 1)
    ELSE IF Truthy(q.creator_id_filter)
    THEN Acc(Append(acc.where_parts,
                    <<Col("", "creator_id"), Op("="), Ph(acc.param_index)>>),
             Append(acc.params, PStr(q.creator_id_filter)), acc.param_index + 1)
    ELSE acc

\* comp_field, qualified under the join
comp_field(q, table_name) ==
    IF needs_join(q, table_name)
    THEN Col(table_name, q.comparison_filter.field)
    ELSE Col("", q.comparison_filter.field)

\* "Comparison filter"
ComparisonStep(q, table_name, acc) ==
    LET f == _build_comparison_filter(q.comparison_filter, acc.param_index,
                                      comp_field(q, table_name))
    IN  IF ~q.comparison_filter.present THEN acc
        ELSE IF ~f.ok THEN AccRaise(f.err)
        ELSE Acc(Append(acc.where_parts, f.where), acc.params \o f.params, f.param_index)

\* " AND ".join(where_parts)
RECURSIVE JoinAnd(_)
JoinAnd(parts) ==
    IF Len(parts) = 0 THEN <<>>
    ELSE IF Len(parts) = 1 THEN parts[1]
    ELSE parts[1] \o <<Kw("AND")>> \o JoinAnd(Tail(parts))

where_part(where_parts) ==
    IF Len(where_parts) > 0 THEN <<Kw("WHERE")>> \o JoinAnd(where_parts) ELSE <<>>

\* The line break between the three parts of the statement.
NL == Kw("\n")

BuildOk(sql, params) == [status |-> "ok", sql |-> sql, params |-> params, err |-> ""]

BuildRaise(e) == [status |-> "error", sql |-> <<>>, params |-> <<>>, err |-> e]

\* Mutant of build_sql: the comparison filter is applied before the creator
\* filter.
build_sql_comparison_first(q) ==
    LET table_name == table_name_map(q.table)
        select_part == _build_select(q, select_table(q, table_name))
        acc0 == Acc(<<>>, <<>>, 1)
        acc1 == DateStep(q, table_name, acc0)
        acc2 == ComparisonStep(q, table_name, acc1)
        acc3 == IF acc2.ok THEN CreatorStep(q, table_name, acc2) ELSE acc2
    IN  IF ~select_part.ok THEN BuildRaise(select_part.err)
        ELSE IF ~acc1.ok THEN BuildRaise(acc1.err)
        ELSE IF ~acc3.ok THEN BuildRaise(acc3.err)
        ELSE BuildOk(select_part.v \o <<NL>> \o from_part(q, table_name) \o <<NL>>
                        \o where_part(acc3.where_parts),
                     acc3.params)

build_sql(q) ==
    LET table_name == table_name_map(q.table)
        select_part == _build_select(q, select_table(q, table_name))
        acc0 == Acc(<<>>, <<>>, 1)
        acc1 == DateStep(q, table_name, acc0)
        acc2 == CreatorStep(q, table_name, acc1)
        acc3 == ComparisonStep(q, table_name, acc2)
    IN  IF ~select_part.ok THEN BuildRaise(select_part.err)
        ELSE IF ~acc1.ok THEN BuildRaise(acc1.err)
        ELSE IF ~acc3.ok THEN BuildRaise(acc3.err)
        ELSE BuildOk(select_part.v \o <<NL>> \o from_part(q, table_name) \o <<NL>>
                        \o where_part(acc3.where_parts),
                     acc3.params)

-----------------------------------------------------------------------------
(* The requests the compiler is applied to *)

\* Comparison values range over 0..MaxCmpValue.
MaxCmpValue == 1

Tables == {"videos", "snapshots"}

\* (metric_type, metric_field) pairs
Metrics ==
    {<<"count", NoneStr>>, <<"sum", NoneStr>>, <<"sum", "delta_views_count">>,
     <<"distinct_count", NoneStr>>, <<"distinct_count", "video_id">>,
     <<"distinct_count", "creator_id">>,
     <<"distinct_count", "video_created_at_date">>,
     <<"distinct_count", "created_at_date">>}

Creators == {NoneStr, "", "abc"}

\* "2025-11-28", "2025-12-5", "2025-11-28T10:30:15", "2025-11-30T00:00:00",
\* "2025-12-31 00:00:30Z"
DateTexts ==
    {BareDate(TRUE, 2025, 11, 28),
     BareDate(FALSE, 2025, 12, 5),
     DateStr("text", TRUE, "T", 2025, 11, 28, 10, 30, 15, ""),
     DateStr("text", TRUE, "T", 2025, 11, 30, 0, 0, 0, ""),
     DateStr("text", TRUE, " ", 2025, 12, 31, 0, 0, 30, "Z")}

DateStrings == {NoneDate, EmptyDate, GarbageDate} \cup DateTexts

\* With exact_date given, the bounds are None or the one plain date.
BoundsWithExact == {NoneDate, BareDate(TRUE, 2025, 11, 28)}

DateFields == {"created_at", "video_created_at"}

NoDateFilter ==
    [present |-> FALSE, field |-> "", start_date |-> NoneDate,
     end_date |-> NoneDate, exact_date |-> NoneDate]

DateFilters ==
    {NoDateFilter} \cup
    {[present |-> TRUE, field |-> f, start_date |-> s, end_date |-> e, exact_date |-> x] :
        f \in DateFields,
        <<s, e, x>> \in {t \in DateStrings \X DateStrings \X DateStrings :
                            \/ t[3] = NoneDate
                            \/ (t[1] \in BoundsWithExact /\ t[2] \in BoundsWithExact)}}

\* The six operators of the compiler, and one it refuses.
Operators == {">", "<", ">=", "<=", "=", "!=", "<>"}

NoComparisonFilter == [present |-> FALSE, field |-> "", operator |-> "", value |-> 0]

\* field is a MetricField: a counter, and one of the two date pseudo-fields.
ComparisonFilters ==
    {NoComparisonFilter} \cup
    {[present |-> TRUE, field |-> "views_count", operator |-> o, value |-> v] :
        o \in Operators, v \in 0..MaxCmpValue} \cup
    {[present |-> TRUE, field |-> "created_at_date", operator |-> ">", value |-> 0]}

QueryRequests ==
    {[table |-> t, metric_type |-> m[1], metric_field |-> m[2], date_filter |-> df,
      creator_id_filter |-> c, comparison_filter |-> cf] :
        t \in Tables, m \in Metrics, df \in DateFilters, c \in Creators,
        cf \in ComparisonFilters}

-----------------------------------------------------------------------------
(* The collaborators of handle_message: the configuration, the LLM's       *)
(* responses, the JSON they carry, the database's answers.                 *)

\* message.text: None (a message with no text) or a question.
Messages == {NoneStr, "how many videos are there"}

\* LLM_PROVIDER and LLM_API_KEY as bot.config leaves them.
Configs ==
    {[provider |-> p, api_key |-> k] : p \in {"ollama", "deepseek"}, k \in {NoneStr, "key"}}

\* A JSON object with the keys of QueryRequest; a null is None.
JsonObject(table, metric_type, metric_field, date_filter, creator_id, comparison) ==
    [table |-> table, metric_type |-> metric_type, metric_field |-> metric_field,
     date_filter |-> date_filter, creator_id_filter |-> creator_id,
     comparison_filter |-> comparison]

NoQuery ==
    JsonObject(NoneStr, NoneStr, NoneStr, NoDateFilter, NoneStr, NoComparisonFilter)

CountVideos ==
    JsonObject("videos", "count", NoneStr, NoDateFilter, NoneStr, NoComparisonFilter)

ExactDay ==
    [present |-> TRUE, field |-> "created_at", start_date |-> NoneDate,
     end_date |-> NoneDate, exact_date |-> BareDate(TRUE, 2025, 11, 28)]

Comparison(field, operator, value) ==
    [present |-> TRUE, field |-> field, operator |-> operator, value |-> value]

\* The objects the LLM answers with: requests that compile, requests that
\* validate and do not compile, and objects that do not validate.
JsonObjects ==
    {CountVideos,
     JsonObject("snapshots", "sum", "delta_views_count", ExactDay, NoneStr,
                NoComparisonFilter),
     JsonObject("snapshots", "distinct_count", "video_id", NoDateFilter, "abc",
                Comparison("delta_views_count", ">", 0)),
     [CountVideos EXCEPT !.metric_type = "sum"],
     [CountVideos EXCEPT !.date_filter = [NoDateFilter EXCEPT !.present = TRUE,
                                                              !.field = "created_at"]],
     [CountVideos EXCEPT !.comparison_filter = Comparison("views_count", "<>", MaxCmpValue)],
     [CountVideos EXCEPT !.comparison_filter = Comparison("views_count", "==", 0)],
     [CountVideos EXCEPT !.comparison_filter = Comparison("views", ">", 0)],
     [CountVideos EXCEPT !.table = "video_snapshots"],
     [CountVideos EXCEPT !.table = NoneStr],
     [CountVideos EXCEPT !.metric_type = "avg"],
     [CountVideos EXCEPT !.metric_field = "views"]}

\* The text of a response: in a ``` block or not, and what it holds: a JSON
\* object, a JSON object after some words, a JSON array, or words only.
Content(kind, fenced, body, json) ==
    [kind |-> kind, fenced |-> fenced, body |-> body, json |-> json]

NoResponse == Content("none", FALSE, "", NoQuery)

EmptyContent == Content("empty", FALSE, "", NoQuery)

Contents ==
    {EmptyContent} \cup
    {Content("text", f, "object", j) : f \in BOOLEAN, j \in JsonObjects} \cup
    {Content("text", f, "prose_object", CountVideos) : f \in BOOLEAN} \cup
    {Content("text", f, b, NoQuery) : f \in BOOLEAN, b \in {"array", "prose"}}

\* What conn.fetchval gives: an exception, NULL, or an integer.
MaxDbValue == 2

DbAnswer(kind, i) == [kind |-> kind, i |-> i]

NoAnswer == DbAnswer("none", 0)

DbAnswers ==
    {DbAnswer("raise", 0), DbAnswer("null", 0)} \cup
    {DbAnswer("value", i) : i \in 0..MaxDbValue}

\* The texts handle_message answers with, and the number.
ErrorReply(text) == [kind |-> "error", text |-> text, n |-> 0]

NumberReply(n) == [kind |-> "number", text |-> "", n |-> n]

-----------------------------------------------------------------------------
(* nl.schemas: what the constructor of QueryRequest accepts *)

TableType == {"videos", "snapshots"}

MetricType == {"count", "sum", "distinct_count"}

MetricField ==
    {"views_count", "likes_count", "comments_count", "reports_count",
     "delta_views_count", "delta_likes_count", "delta_comments_count",
     "delta_reports_count", "video_id", "creator_id",
     "video_created_at_date", "created_at_date"}

\* field: MetricField, operator: str, value: int
ComparisonFilter(cf) == cf.field \in MetricField

\* table and metric_type are required enums, metric_field an optional enum;
\* the filters are optional models.
QueryRequest(json_data) ==
    IF /\ json_data.table \in TableType
       /\ json_data.metric_type \in MetricType
       /\ json_data.metric_field \in MetricField \cup {NoneStr}
       /\ json_data.comparison_filter.present => ComparisonFilter(json_data.comparison_filter)
    THEN [ok |-> TRUE, v |-> json_data, err |-> ""]
    ELSE [ok |-> FALSE, v |-> NoQuery, err |-> "ValidationError"]

-----------------------------------------------------------------------------
(* NLParser.parse_query, after the response has come *)

\* content_clean: the text between the first { and the last } of a ``` block,
\* or the block without its backticks when it has no braces.
content_clean(content) ==
    IF content.fenced
    THEN IF content.body \in {"object", "prose_object"}
         THEN [content EXCEPT !.fenced = FALSE, !.body = "object"]
         ELSE [content EXCEPT !.fenced = FALSE]
    ELSE content

\* json.loads: an object gives a dict, an array a list, anything else raises.
json_loads(text) ==
    IF text.body = "object" THEN [ok |-> TRUE, type |-> "dict", v |-> text.json]
    ELSE IF text.body = "array" THEN [ok |-> TRUE, type |-> "list", v |-> NoQuery]
    ELSE [ok |-> FALSE, type |-> "", v |-> NoQuery]

\* Lines 95-151: the QueryRequest, or None with the exception that was caught.
ParsedNone(e) == [ok |-> FALSE, v |-> NoQuery, err |-> e]

parse_content(content) ==
    LET json_data == json_loads(content_clean(content))
    IN  IF content.kind = "empty" THEN ParsedNone("empty response")
        ELSE IF ~json_data.ok THEN ParsedNone("JSONDecodeError")
        ELSE IF json_data.type # "dict" THEN ParsedNone("TypeError")
        ELSE QueryRequest(json_data.v)

\* The stages a response goes through: read, json.loads, validation.
StagesOf(parsed) ==
    IF parsed.err = "empty response" THEN <<"llm">>
    ELSE IF parsed.err = "JSONDecodeError" THEN <<"llm", "json">>
    ELSE <<"llm", "json", "validate">>

\* issubclass(e, c) for the exceptions met here: json.JSONDecodeError and
\* pydantic's ValidationError are ValueErrors.
Subclass(e, c) ==
    \/ c = "Exception"
    \/ e = c
    \/ c = "ValueError" /\ e \in {"JSONDecodeError", "ValidationError"}

\* Mutant of parse_query_excepts: the last clause, `except Exception`, is
\* missing.
parse_query_excepts_without_exception == <<"JSONDecodeError", "ValidationError">>

\* The except clauses of parse_query; each returns None.
parse_query_excepts == <<"JSONDecodeError", "ValidationError", "Exception">>

Caught(e, clauses) == \E i \in DOMAIN clauses : Subclass(e, clauses[i])

\* One chat.completions.create call: with response_format or not, and
\* whether it raised.
create(response_format, raised) == [response_format |-> response_format, raised |-> raised]

\* use_json_format = self.provider not in ["ollama"]
use_json_format == config.provider \notin {"ollama"}

\* get_parser raises ValueError.
get_parser_raises == ~Truthy(config.api_key) /\ config.provider # "ollama"

-----------------------------------------------------------------------------
(* The state machine of the compiler alone: a request is built once and    *)
(* compiled once.                                                          *)

Pending == [status |-> "pending", sql |-> <<>>, params |-> <<>>, err |-> ""]

\* No message is being handled.
NoMessage ==
    /\ pc = "idle"
    /\ message = NoneStr
    /\ config = [provider |-> "ollama", api_key |-> NoneStr]
    /\ response = NoResponse
    /\ llm_calls = <<>>
    /\ events = <<>>
    /\ fetched = NoAnswer
    /\ exec_result = NotReturned
    /\ replies = <<>>

Init ==
    /\ query \in QueryRequests
    /\ result = Pending
    /\ NoMessage
    /\ calls = <<>>

\* QueryBuilder.build_sql(query)
BuildSql ==
    /\ result.status = "pending"
    /\ pc = "idle"
    /\ result' = build_sql(query)
    /\ UNCHANGED <<query, handler_vars, calls>>

Next == BuildSql

Spec == Init /\ [][Next]_vars

-----------------------------------------------------------------------------
(* The state machine of one message: handle_message, with parse_query and  *)
(* execute_query inlined at their calls.                                   *)

InitPipeline ==
    /\ message \in Messages
    /\ config \in Configs
    /\ pc = "handle_message"
    /\ query = NoQuery
    /\ result = Pending
    /\ response = NoResponse
    /\ llm_calls = <<>>
    /\ events = <<>>
    /\ fetched = NoAnswer
    /\ exec_result = NotReturned
    /\ replies = <<>>
    /\ calls = <<>>

\* await message.answer(...), and the handler returns.
AnswerAndReturn(reply) ==
    /\ replies' = Append(replies, reply)
    /\ pc' = "done"

\* `if not user_query:` answer and return.
EmptyText ==
    /\ pc = "handle_message"
    /\ ~Truthy(message)
    /\ AnswerAndReturn(ErrorReply("send a text"))
    /\ UNCHANGED <<query, result, message, config, response, llm_calls, events,
                   fetched, exec_result, calls>>

\* get_parser() raises ValueError; `except ValueError` answers.
GetParserRaises ==
    /\ pc = "handle_message"
    /\ Truthy(message)
    /\ get_parser_raises
    /\ AnswerAndReturn(ErrorReply("configuration error"))
    /\ UNCHANGED <<query, result, message, config, response, llm_calls, events,
                   fetched, exec_result, calls>>

\* get_parser() returns the parser; parse_query is called.
GetParser ==
    /\ pc = "handle_message"
    /\ Truthy(message)
    /\ ~get_parser_raises
    /\ pc' = "first_call"
    /\ UNCHANGED <<query, result, message, config, response, llm_calls, events,
                   fetched, exec_result, replies, calls>>

\* Mutant of ParseQueryReturnsNone: handle_message returns without an answer.
ParseQueryReturnsNoneSilently ==
    /\ pc' = "done"
    /\ UNCHANGED <<query, result, message, config, fetched, exec_result, replies, calls>>

\* parse_query returns None: handle_message answers and returns.
ParseQueryReturnsNone ==
    /\ AnswerAndReturn(ErrorReply("could not process the query"))
    /\ UNCHANGED <<query, result, message, config, fetched, exec_result, calls>>

\* An exception leaves parse_query: the except clauses of handle_message
\* answer, `except ValueError` first.
handle_message_except(e) ==
    /\ AnswerAndReturn(IF Subclass(e, "ValueError")
                       THEN ErrorReply("configuration error")
                       ELSE ErrorReply("internal error"))
    /\ UNCHANGED <<query, result, message, config, fetched, exec_result, calls>>

\* An exception raised in the try block of parse_query: a clause that catches
\* it returns None.
ParseQueryRaises(e) ==
    IF Caught(e, parse_query_excepts)
    THEN ParseQueryReturnsNone
    ELSE handle_message_except(e)

\* The response is read, cleaned, parsed and validated; parse_query returns
\* the QueryRequest, or None for an empty response.
ReadResponse(content) ==
    LET parsed == parse_content(content)
    IN  /\ response' = content
        /\ events' = events \o StagesOf(parsed)
        /\ IF parsed.ok
           THEN /\ query' = parsed.v
                /\ pc' = "execute_query"
                /\ UNCHANGED <<result, message, config, fetched, exec_result, replies, calls>>
           ELSE IF parsed.err = "empty response"
           THEN ParseQueryReturnsNone
           ELSE ParseQueryRaises(parsed.err)

\* The first chat.completions.create, with response_format for a provider
\* other than ollama, answers.
FirstCallAnswers ==
    /\ pc = "first_call"
    /\ llm_calls' = Append(llm_calls, create(use_json_format, FALSE))
    /\ \E content \in Contents : ReadResponse(content)

\* The first call raises: `except Exception as format_error`.
FirstCallRaises ==
    /\ pc = "first_call"
    /\ llm_calls' = Append(llm_calls, create(use_json_format, TRUE))
    /\ events' = Append(events, "llm")
    /\ pc' = "second_call"
    /\ UNCHANGED <<query, result, message, config, response, fetched, exec_result,
                   replies, calls>>

\* The second call, without response_format, answers.
SecondCallAnswers ==
    /\ pc = "second_call"
    /\ llm_calls' = Append(llm_calls, create(FALSE, FALSE))
    /\ \E content \in Contents : ReadResponse(content)

\* The second call raises: the outer `except Exception` returns None.
SecondCallRaises ==
    /\ pc = "second_call"
    /\ llm_calls' = Append(llm_calls, create(FALSE, TRUE))
    /\ events' = Append(events, "llm")
    /\ response' = response
    /\ ParseQueryRaises("APIError")

\* execute_query returns None or an integer, and handle_message answers:
\* the error text for None, str(result) for an integer.
ExecuteQueryReturns(value) ==
    /\ exec_result' = value
    /\ AnswerAndReturn(IF value = PNone
                       THEN ErrorReply("database error")
                       ELSE NumberReply(value.i))
    /\ UNCHANGED <<query, message, config, response, llm_calls, calls>>

\* Mutant of ExecuteBuildSql: the exception of build_sql is swallowed and the
\* pool is asked for a connection all the same.
ExecuteBuildSqlAndGoOn ==
    /\ pc = "execute_query"
    /\ result' = build_sql(query)
    /\ events' = Append(events, "build_sql")
    /\ pc' = "get_pool"
    /\ UNCHANGED <<query, message, config, response, llm_calls, fetched, exec_result,
                   replies, calls>>

\* execute_query: sql, params = QueryBuilder.build_sql(query); when it raises,
\* `except Exception` returns None.
ExecuteBuildSql ==
    /\ pc = "execute_query"
    /\ result' = build_sql(query)
    /\ events' = Append(events, "build_sql")
    /\ IF result'.status = "ok"
       THEN /\ pc' = "get_pool"
            /\ UNCHANGED <<query, message, config, response, llm_calls, exec_result,
                           replies, calls>>
       ELSE ExecuteQueryReturns(PNone)
    /\ UNCHANGED fetched

\* pool = await get_pool()
GetPool ==
    /\ pc = "get_pool"
    /\ events' = Append(events, "get_pool")
    /\ pc' = "acquire"
    /\ UNCHANGED <<query, result, message, config, response, llm_calls, fetched,
                   exec_result, replies, calls>>

GetPoolRaises ==
    /\ pc = "get_pool"
    /\ events' = Append(events, "get_pool")
    /\ UNCHANGED <<result, fetched>>
    /\ ExecuteQueryReturns(PNone)

\* async with pool.acquire() as conn
Acquire ==
    /\ pc = "acquire"
    /\ events' = Append(events, "acquire")
    /\ pc' = "fetchval"
    /\ UNCHANGED <<query, result, message, config, response, llm_calls, fetched,
                   exec_result, replies, calls>>

AcquireRaises ==
    /\ pc = "acquire"
    /\ events' = Append(events, "acquire")
    /\ UNCHANGED <<result, fetched>>
    /\ ExecuteQueryReturns(PNone)

\* Mutant of fetchval_result: an exception of fetchval gives 0.
fetchval_result_zero_on_raise(answer) ==
    IF answer.kind = "raise" THEN PInt(0)
    ELSE IF answer.kind = "null" THEN PInt(0)
    ELSE PInt(answer.i)

\* result = await conn.fetchval(sql, *params); 0 for None, else int(result).
fetchval_result(answer) ==
    IF answer.kind = "raise" THEN PNone
    ELSE IF answer.kind = "null" THEN PInt(0)
    ELSE PInt(answer.i)

Fetchval ==
    /\ pc = "fetchval"
    /\ events' = Append(events, "fetchval")
    /\ UNCHANGED result
    /\ \E answer \in DbAnswers :
          /\ fetched' = answer
          /\ ExecuteQueryReturns(fetchval_result(answer))

NextPipeline ==
    \/ EmptyText
    \/ GetParserRaises
    \/ GetParser
    \/ FirstCallAnswers
    \/ FirstCallRaises
    \/ SecondCallAnswers
    \/ SecondCallRaises
    \/ ExecuteBuildSql
    \/ GetPool
    \/ GetPoolRaises
    \/ Acquire
    \/ AcquireRaises
    \/ Fetchval

SpecPipeline == InitPipeline /\ [][NextPipeline]_vars

\* Every await of the handler comes back, with a value or an exception, and
\* the event loop resumes the handler.
SpecPipelineFair == SpecPipeline /\ WF_vars(NextPipeline)

-----------------------------------------------------------------------------
(* The state machine of concurrent compilations: NumCalls invocations of   *)
(* build_sql, each with its own frame, take their steps in any order.      *)

NumCalls == 2

\* The requests of the concurrent invocations: with and without each filter,
\* with a join, and ones that raise at each stage.
CallRequests ==
    {CountVideos,
     JsonObject("snapshots", "sum", "delta_views_count", ExactDay, "abc",
                Comparison("delta_views_count", ">", 0)),
     JsonObject("videos", "distinct_count", "creator_id",
                [ExactDay EXCEPT !.start_date = BareDate(TRUE, 2025, 11, 28)], NoneStr,
                Comparison("views_count", "<=", MaxCmpValue)),
     [CountVideos EXCEPT !.creator_id_filter = "abc"],
     [CountVideos EXCEPT !.metric_type = "sum"],
     [CountVideos EXCEPT !.date_filter = [ExactDay EXCEPT !.exact_date = GarbageDate]],
     [CountVideos EXCEPT !.creator_id_filter = "abc",
                         !.comparison_filter = Comparison("views_count", "<>", 0)]}

\* The frame of one invocation: its argument, where it stands, and its
\* locals select_part, where_parts, params and param_index.
Frame(q) ==
    [q |-> q, pc |-> "select", select_part |-> <<>>, acc |-> Acc(<<>>, <<>>, 1),
     result |-> Pending]

InitCalls ==
    /\ calls \in [1..NumCalls -> {Frame(q) : q \in CallRequests}]
    /\ query = NoQuery
    /\ result = Pending
    /\ NoMessage

\* Mutant of Locals: where_parts, params and param_index are attributes of
\* the class, those the first invocation works on.
LocalsOfTheClass(i) == calls[1].acc

\* where_parts, params and param_index as invocation i reads them: the
\* locals of its own frame.
Locals(i) == calls[i].acc

\* The invocation raises: nothing is returned.
CallRaises(i, e) ==
    calls' = [calls EXCEPT ![i].pc = "done", ![i].result = BuildRaise(e)]

\* select_part = QueryBuilder._build_select(query, select_table)
CallBuildSelect(i) ==
    LET q == calls[i].q
        select_part == _build_select(q, select_table(q, table_name_map(q.table)))
    IN  /\ calls[i].pc = "select"
        /\ IF select_part.ok
           THEN calls' = [calls EXCEPT ![i].pc = "date", ![i].select_part = select_part.v]
           ELSE CallRaises(i, select_part.err)
        /\ UNCHANGED <<query, result, handler_vars>>

\* One filter step of invocation i on its accumulators.
CallFilter(i, acc1, next_pc) ==
    IF acc1.ok
    THEN calls' = [calls EXCEPT ![i].pc = next_pc, ![i].acc = acc1]
    ELSE CallRaises(i, acc1.err)

\* `if query.date_filter:`
CallDateFilter(i) ==
    LET q == calls[i].q
    IN  /\ calls[i].pc = "date"
        /\ CallFilter(i, DateStep(q, table_name_map(q.table), Locals(i)), "creator")
        /\ UNCHANGED <<query, result, handler_vars>>

\* `if needs_join: ... elif query.creator_id_filter:`
CallCreatorFilter(i) ==
    LET q == calls[i].q
    IN  /\ calls[i].pc = "creator"
        /\ CallFilter(i, CreatorStep(q, table_name_map(q.table), Locals(i)), "comparison")
        /\ UNCHANGED <<query, result, handler_vars>>

\* `if query.comparison_filter:`
CallComparisonFilter(i) ==
    LET q == calls[i].q
    IN  /\ calls[i].pc = "comparison"
        /\ CallFilter(i, ComparisonStep(q, table_name_map(q.table), Locals(i)), "return")
        /\ UNCHANGED <<query, result, handler_vars>>

\* The WHERE part is joined, the SQL put together and returned.
CallReturn(i) ==
    LET q == calls[i].q
        sql == calls[i].select_part \o <<NL>> \o from_part(q, table_name_map(q.table))
                   \o <<NL>> \o where_part(Locals(i).where_parts)
    IN  /\ calls[i].pc = "return"
        /\ calls' = [calls EXCEPT ![i].pc = "done",
                                  ![i].result = BuildOk(sql, Locals(i).params)]
        /\ UNCHANGED <<query, result, handler_vars>>

NextCalls ==
    \E i \in 1..NumCalls :
        \/ CallBuildSelect(i)
        \/ CallDateFilter(i)
        \/ CallCreatorFilter(i)
        \/ CallComparisonFilter(i)
        \/ CallReturn(i)

SpecCalls == InitCalls /\ [][NextCalls]_vars

-----------------------------------------------------------------------------
(* Properties *)

Compiled == result.status = "ok"

Failed == result.status = "error"

\* Positions and numbers of the placeholders of an SQL text.
PhPositions(sql) == {i \in DOMAIN sql : sql[i].k = "ph"}

PlaceholderNumbers(sql) == {sql[i].n : i \in PhPositions(sql)}

\* The creator filter is given: an identifier, not None and not empty.
HasCreator == Truthy(query.creator_id_filter)

HasDateFilter == query.date_filter.present

HasComparison == query.comparison_filter.present

\* C1: whenever build_sql succeeds, the placeholder numbers of the SQL text
\* are exactly 1..N, N the length of the parameter list, and no number is
\* written twice.
C1_PlaceholderIntegrity ==
    Compiled =>
        /\ PlaceholderNumbers(result.sql) = 1..Len(result.params)
        /\ \A i, j \in PhPositions(result.sql) :
              result.sql[i].n = result.sql[j].n => i = j

\* A two-bound date filter, a creator and a comparison compiled together.
C1_Witness ==
    /\ Compiled
    /\ HasDateFilter /\ HasCreator /\ HasComparison
    /\ Len(result.params) = 4

\* The FROM part: the tokens between the two line breaks.
FromOf(sql) ==
    LET nl == {i \in DOMAIN sql : sql[i] = NL}
        a == CHOOSE i \in nl : \A j \in nl : i <= j
        b == CHOOSE i \in nl : \A j \in nl : j <= i
    IN  SubSeq(sql, a + 1, b - 1)

JoinFrom ==
    <<Kw("FROM"), Tbl("video_snapshots"), Kw("INNER JOIN"), Tbl("videos"), Kw("ON"),
      Col("video_snapshots", "video_id"), Op("="), Col("videos", "id")>>

PhysicalName(table) == IF table = "snapshots" THEN "video_snapshots" ELSE "videos"

\* The SQL holds `<qualifier.>creator_id = $i` and parameter i is the creator.
CreatorCondition(qualifier) ==
    \E i \in 1..(Len(result.sql) - 2) :
        /\ result.sql[i] = Col(qualifier, "creator_id")
        /\ result.sql[i + 1] = Op("=")
        /\ result.sql[i + 2].k = "ph"
        /\ result.sql[i + 2].n \in DOMAIN result.params
        /\ result.params[result.sql[i + 2].n] = PStr(query.creator_id_filter)

StringParams == {k \in DOMAIN result.params : result.params[k].ty = "str"}

\* C2: the join is emitted exactly when the table is the snapshot table and a
\* creator is given; then FROM is video_snapshots INNER JOIN videos ON
\* video_snapshots.video_id = videos.id and the condition is
\* videos.creator_id = $i.  Otherwise there is no JOIN and a creator on the
\* aggregate table gives creator_id = $i.  A given creator contributes exactly
\* one parameter, the identifier.
C2_ImplicitJoin ==
    Compiled =>
        /\ Cardinality({i \in DOMAIN result.sql : result.sql[i] = NL}) = 2
        /\ IF query.table = "snapshots" /\ HasCreator
           THEN /\ FromOf(result.sql) = JoinFrom
                /\ CreatorCondition("videos")
           ELSE /\ \A i \in DOMAIN result.sql : result.sql[i] # Kw("INNER JOIN")
                /\ FromOf(result.sql) = <<Kw("FROM"), Tbl(PhysicalName(query.table))>>
                /\ HasCreator => CreatorCondition("")
        /\ Cardinality(StringParams) = (IF HasCreator THEN 1 ELSE 0)

C2_Witness ==
    /\ Compiled
    /\ query.table = "snapshots"
    /\ HasCreator
    /\ FromOf(result.sql) = JoinFrom

\* The owner of a column when video_snapshots is joined with videos:
\* creator_id and video_created_at are stored on videos only.
OwnerUnderJoin(c) ==
    IF c \in {"creator_id", "video_created_at"} THEN "videos" ELSE "video_snapshots"

\* Positions of the SELECT and WHERE parts: all but the FROM part.
SelectWherePositions(sql) ==
    LET nl == {i \in DOMAIN sql : sql[i] = NL}
    IN  {i \in DOMAIN sql : \A j \in nl : i < j} \cup {i \in DOMAIN sql : \A j \in nl : i > j}

\* C3: under the implicit join every table-qualified column of SELECT and
\* WHERE is qualified with the table that owns it.
C3_QualifiedByOwner ==
    (Compiled /\ query.table = "snapshots" /\ HasCreator) =>
        \A i \in SelectWherePositions(result.sql) :
            (result.sql[i].k = "col" /\ result.sql[i].q # "") =>
                result.sql[i].q = OwnerUnderJoin(result.sql[i].v)

\* A date string with a time-of-day component.
CarriesTime(ds) == ds.kind = "text" /\ ds.sep \in {"T", " "}

\* A bare calendar date: no time-of-day component.
IsBare(ds) == ds.kind = "text" /\ ds.sep = ""

\* The request has a metric field where one is needed, and a known operator.
SelectValid == query.metric_type = "count" \/ Truthy(query.metric_field)

ComparisonValid ==
    HasComparison => query.comparison_filter.operator \in {">", "<", ">=", "<=", "=", "!="}

Finished == result.status # "pending"

\* The timestamp a date string with a time component denotes.
TimestampOf(ds) ==
    PDateTime(ds.y, ds.mo, ds.d, ds.h, ds.mi, ds.sec, 0,
              IF ds.tz = "Z" THEN "+00:00" ELSE ds.tz)

\* Midnight of the day of ds, and midnight of the day after it.
MidnightOf(ds) == [TimestampOf(ds) EXCEPT !.h = 0, !.mi = 0, !.sec = 0]

MidnightAfter(ds) ==
    LET m == MidnightOf(ds)
    IN  IF ds.d < DaysInMonth(ds.y, ds.mo) THEN [m EXCEPT !.d = ds.d + 1]
        ELSE IF ds.mo < 12 THEN [m EXCEPT !.mo = ds.mo + 1, !.d = 1]
        ELSE [m EXCEPT !.y = ds.y + 1, !.mo = 1, !.d = 1]

\* The first n tokens after WHERE: the date fragment, which comes first.
WhereIndex == CHOOSE i \in DOMAIN result.sql : result.sql[i] = Kw("WHERE")

HasWhere == \E i \in DOMAIN result.sql : result.sql[i] = Kw("WHERE")

DateFragment(n) ==
    IF HasWhere /\ WhereIndex + n <= Len(result.sql)
    THEN SubSeq(result.sql, WhereIndex + 1, WhereIndex + n)
    ELSE <<>>

\* The date column as the request names it, qualified under the join.
DateColumn ==
    Col(IF query.table = "snapshots" /\ HasCreator THEN "video_snapshots" ELSE "",
        query.date_filter.field)

DateParams == {k \in DOMAIN result.params : result.params[k].ty \in {"date", "datetime"}}

ExactDate == query.date_filter.exact_date

\* C4: an exactDate with a time component compiles, on every calendar day,
\* to col >= $i AND col < $i+1 with the parameters midnight of that day and
\* midnight of the next day.
C4_ExactTimestampWindow ==
    (Finished /\ HasDateFilter /\ CarriesTime(ExactDate) /\ SelectValid /\ ComparisonValid) =>
        /\ Compiled
        /\ HasWhere
        /\ DateFragment(7) = <<DateColumn, Op(">="), Ph(1), Kw("AND"),
                               DateColumn, Op("<"), Ph(2)>>
        /\ DateParams = {1, 2}
        /\ result.params[1] = MidnightOf(ExactDate)
        /\ result.params[2] = MidnightAfter(ExactDate)

\* The request of scenario 2.
Scenario2 ==
    [table |-> "snapshots", metric_type |-> "sum", metric_field |-> "delta_views_count",
     date_filter |-> [present |-> TRUE, field |-> "created_at", start_date |-> NoneDate,
                      end_date |-> NoneDate, exact_date |-> BareDate(TRUE, 2025, 11, 28)],
     creator_id_filter |-> NoneStr, comparison_filter |-> NoComparisonFilter]

Scenario2Head ==
    <<Kw("SELECT"), Kw("SUM("), Col("", "delta_views_count"), Kw(")"), NL,
      Kw("FROM"), Tbl("video_snapshots"), NL, Kw("WHERE")>>

\* C5 as stated: scenario 2 gives SUM(delta_views_count) with
\* created_at >= $1 AND created_at < $2 and the parameters
\* 2025-11-28T00:00:00 and 2025-11-29T00:00:00.
C5_Scenario2HalfOpen ==
    (Finished /\ query = Scenario2) =>
        /\ Compiled
        /\ result.sql = Scenario2Head \o
              <<Col("", "created_at"), Op(">="), Ph(1), Kw("AND"),
                Col("", "created_at"), Op("<"), Ph(2)>>
        /\ result.params = <<PDateTime(2025, 11, 28, 0, 0, 0, 0, ""),
                             PDateTime(2025, 11, 29, 0, 0, 0, 0, "")>>

\* C5 amended: scenario 2 gives SUM(delta_views_count) with
\* DATE(created_at) = $1 and the one parameter, the date 2025-11-28.
C5_Scenario2DateEquality ==
    (Finished /\ query = Scenario2) =>
        /\ Compiled
        /\ result.sql = Scenario2Head \o
              <<Kw("DATE("), Col("", "created_at"), Kw(")"), Op("="), Ph(1)>>
        /\ result.params = <<PDate(2025, 11, 28)>>

C5_Witness == query = Scenario2 /\ Compiled

\* C6: an exactDate that is a bare calendar date is date-only: it compiles
\* to DATE(col) = $i with one parameter, that date; only a value with a time
\* component is treated as a timestamp.
C6_BareDateIsDateOnly ==
    (Finished /\ HasDateFilter /\ IsBare(ExactDate) /\ SelectValid /\ ComparisonValid) =>
        /\ Compiled
        /\ HasWhere
        /\ DateFragment(5) = <<Kw("DATE("), DateColumn, Kw(")"), Op("="), Ph(1)>>
        /\ DateParams = {1}
        /\ result.params[1] = PDate(ExactDate.y, ExactDate.mo, ExactDate.d)

StartDate == query.date_filter.start_date

EndDate == query.date_filter.end_date

\* v is the last second of the day of the bare date ds.
IsEndOfDay(v, ds) ==
    /\ v.ty = "datetime"
    /\ v.y = ds.y /\ v.mo = ds.mo /\ v.d = ds.d
    /\ v.h = 23 /\ v.mi = 59 /\ v.sec = 59

\* C7: with startDate and endDate and no exactDate, if either carries a time
\* both are timestamps in col >= $i AND col <= $i+1, a bare start at
\* start-of-day and a bare end at end-of-day; if neither does, the range is
\* DATE(col) >= $i AND DATE(col) <= $i+1 over two dates.  Two parameters,
\* start first.
C7_TwoBoundRange ==
    (/\ Finished /\ HasDateFilter /\ SelectValid /\ ComparisonValid
     /\ ExactDate = NoneDate /\ StartDate.kind = "text" /\ EndDate.kind = "text") =>
        /\ Compiled
        /\ HasWhere
        /\ DateParams = {1, 2}
        /\ IF CarriesTime(StartDate) \/ CarriesTime(EndDate)
           THEN /\ DateFragment(7) = <<DateColumn, Op(">="), Ph(1), Kw("AND"),
                                       DateColumn, Op("<="), Ph(2)>>
                /\ result.params[1] = (IF CarriesTime(StartDate)
                                       THEN TimestampOf(StartDate)
                                       ELSE MidnightOf(StartDate))
                /\ IF CarriesTime(EndDate)
                   THEN result.params[2] = TimestampOf(EndDate)
                   ELSE IsEndOfDay(result.params[2], EndDate)
           ELSE /\ DateFragment(11) =
                      <<Kw("DATE("), DateColumn, Kw(")"), Op(">="), Ph(1), Kw("AND"),
                        Kw("DATE("), DateColumn, Kw(")"), Op("<="), Ph(2)>>
                /\ result.params[1] = PDate(StartDate.y, StartDate.mo, StartDate.d)
                /\ result.params[2] = PDate(EndDate.y, EndDate.mo, EndDate.d)

\* Only endDate is given, and it is a date text.
EndOnly ==
    /\ HasDateFilter /\ SelectValid /\ ComparisonValid
    /\ ExactDate = NoneDate /\ StartDate = NoneDate /\ EndDate.kind = "text"

\* C8 as stated: with endDate alone the condition is one-sided <= with one
\* parameter and nothing is moved to the end of the day: a bare date gives
\* DATE(col) <= $i with the date, a timestamp (midnight too) is passed
\* through with its time of day unchanged.
C8_EndBoundNeverPromoted ==
    (Finished /\ EndOnly) =>
        /\ Compiled
        /\ HasWhere
        /\ DateParams = {1}
        /\ IF CarriesTime(EndDate)
           THEN /\ DateFragment(3) = <<DateColumn, Op("<="), Ph(1)>>
                /\ result.params[1] = TimestampOf(EndDate)
           ELSE /\ DateFragment(5) = <<Kw("DATE("), DateColumn, Kw(")"), Op("<="), Ph(1)>>
                /\ result.params[1] = PDate(EndDate.y, EndDate.mo, EndDate.d)

\* A bare date in ISO form, YYYY-MM-DD with its leading zeros.
IsBareIso(ds) == IsBare(ds) /\ ds.pad

\* C8 amended: with endDate alone the condition is one-sided <= with one
\* parameter.  A bare ISO date gives DATE(col) <= $i with the date.  Any
\* other value is compared as a timestamp, col <= $i; its time of day is
\* unchanged unless its hour and minute are both 0, and then it is replaced
\* by 23:59:59.
C8_EndBoundPromotedAtMidnight ==
    (Finished /\ EndOnly) =>
        /\ Compiled
        /\ HasWhere
        /\ DateParams = {1}
        /\ IF IsBareIso(EndDate)
           THEN /\ DateFragment(5) = <<Kw("DATE("), DateColumn, Kw(")"), Op("<="), Ph(1)>>
                /\ result.params[1] = PDate(EndDate.y, EndDate.mo, EndDate.d)
           ELSE /\ DateFragment(3) = <<DateColumn, Op("<="), Ph(1)>>
                /\ result.params[1] =
                      (IF EndDate.h = 0 /\ EndDate.mi = 0
                       THEN [TimestampOf(EndDate) EXCEPT !.h = 23, !.mi = 59, !.sec = 59]
                       ELSE TimestampOf(EndDate))

\* A midnight timestamp given as the only bound, compiled to 23:59:59.
C8_Witness ==
    /\ Compiled
    /\ EndOnly
    /\ CarriesTime(EndDate) /\ EndDate.h = 0 /\ EndDate.mi = 0 /\ EndDate.sec = 0
    /\ result.params[1].h = 23

\* The filter a parameter belongs to, by its type: 1 date, 2 creator,
\* 3 comparison.
Rank(v) ==
    IF v.ty \in {"date", "datetime"} THEN 1 ELSE IF v.ty = "str" THEN 2 ELSE 3

\* The column a placeholder is compared with: the nearest column before it.
ColumnBefore(p) ==
    LET cols == {i \in 1..(p - 1) : result.sql[i].k = "col"}
    IN  result.sql[CHOOSE i \in cols : \A j \in cols : j <= i]

ParamsOfRank(r) == {k \in DOMAIN result.params : Rank(result.params[k]) = r}

\* C9: the WHERE fragments come in the order date, creator, comparison, each
\* only if its filter is given, joined with AND, and the k-th parameter is the
\* value of the fragment that holds $k.
C9_FragmentAndParameterOrder ==
    Compiled =>
        LET sql == result.sql
            params == result.params
            phs == PhPositions(sql)
        IN  /\ HasWhere <=> (HasDateFilter \/ HasCreator \/ HasComparison)
            /\ HasWhere => /\ sql[WhereIndex - 1] = NL
                           /\ sql[Len(sql)].k = "ph"
                           /\ phs # {}
            /\ ~HasWhere => phs = {}
            /\ \A p \in phs : p > WhereIndex /\ sql[p].n \in DOMAIN params
            /\ \A p1, p2 \in phs : p1 < p2 => sql[p1].n < sql[p2].n
            /\ \A p \in phs : p < Len(sql) => sql[p + 1] = Kw("AND")
            /\ \A k1, k2 \in DOMAIN params :
                  k1 < k2 => Rank(params[k1]) <= Rank(params[k2])
            /\ (ParamsOfRank(1) # {}) <=> HasDateFilter
            /\ Cardinality(ParamsOfRank(2)) = (IF HasCreator THEN 1 ELSE 0)
            /\ Cardinality(ParamsOfRank(3)) = (IF HasComparison THEN 1 ELSE 0)
            /\ \A p \in phs :
                  LET v == params[sql[p].n]
                      c == ColumnBefore(p)
                  IN  CASE Rank(v) = 1 -> c.v = query.date_filter.field
                        [] Rank(v) = 2 -> /\ c.v = "creator_id"
                                          /\ v = PStr(query.creator_id_filter)
                        [] Rank(v) = 3 -> /\ c.v = query.comparison_filter.field
                                          /\ sql[p - 1] = Op(query.comparison_filter.operator)
                                          /\ v = PInt(query.comparison_filter.value)

\* An exact date, a creator and a comparison compiled together.
C9_Witness ==
    /\ Compiled
    /\ HasDateFilter /\ HasCreator /\ HasComparison
    /\ Cardinality(ParamsOfRank(1)) = 1
    /\ Len(result.params) = 3

InvalidOperator ==
    HasComparison /\ query.comparison_filter.operator \notin {">", "<", ">=", "<=", "=", "!="}

\* No stage before the comparison filter raises: the SELECT part and the date
\* filter are built.
EarlierStagesBuilt ==
    LET table_name == table_name_map(query.table)
    IN  /\ _build_select(query, select_table(query, table_name)).ok
        /\ DateStep(query, table_name, Acc(<<>>, <<>>, 1)).ok

\* The SQL holds `<field> <operator> $i` and parameter i is the integer value.
ComparisonCondition ==
    \E i \in 1..(Len(result.sql) - 2) :
        /\ result.sql[i].k = "col"
        /\ result.sql[i].v = query.comparison_filter.field
        /\ result.sql[i + 1] = Op(query.comparison_filter.operator)
        /\ result.sql[i + 2].k = "ph"
        /\ result.sql[i + 2].n \in DOMAIN result.params
        /\ result.params[result.sql[i + 2].n] = PInt(query.comparison_filter.value)

\* C10: an operator outside {>, <, >=, <=, =, !=} makes the compilation fail,
\* with the invalid-operator error when no earlier stage has raised, and no
\* SQL text and no parameters are returned; an operator of the set gives
\* `<field> <operator> $i` with one parameter, the integer value.
C10_OperatorValidation ==
    Finished =>
        /\ InvalidOperator =>
              /\ Failed
              /\ result.sql = <<>> /\ result.params = <<>>
              /\ EarlierStagesBuilt => result.err = "invalid operator"
        /\ (Compiled /\ HasComparison) =>
              /\ ~InvalidOperator
              /\ ComparisonCondition
              /\ Cardinality(ParamsOfRank(3)) = 1
        /\ Failed => (result.sql = <<>> /\ result.params = <<>>)

\* The operator "<>" refused in an otherwise well-formed request.
C10_Witness ==
    /\ Failed
    /\ query.comparison_filter.operator = "<>"
    /\ EarlierStagesBuilt
    /\ result.err = "invalid operator"

\* The errors of a SUM or a DISTINCT_COUNT that has no metric_field.
MissingFieldErrors ==
    {"metric_field is required for SUM", "metric_field is required for DISTINCT_COUNT"}

MissingMetricField ==
    query.metric_type \in {"sum", "distinct_count"} /\ ~Truthy(query.metric_field)

\* C12: a SUM or DISTINCT_COUNT request with no metric_field fails with the
\* missing-field error whatever its filters are, and returns no SQL text and
\* no parameters; a COUNT request never fails with the missing-field error.
C12_MissingMetricField ==
    Finished =>
        /\ MissingMetricField =>
              /\ Failed
              /\ result.err \in MissingFieldErrors
              /\ result.sql = <<>> /\ result.params = <<>>
        /\ query.metric_type = "count" => result.err \notin MissingFieldErrors

\* A SUM with no field, all three filters given, two of them ill-formed: the
\* error is still the missing field.
C12_Witness ==
    /\ Failed
    /\ query.metric_type = "sum" /\ MissingMetricField
    /\ HasCreator
    /\ HasDateFilter /\ query.date_filter.exact_date = GarbageDate
    /\ InvalidOperator
    /\ result.err = "metric_field is required for SUM"

\* None of the three dates of the date filter is given.
EmptyDateFilter ==
    /\ HasDateFilter
    /\ ~TruthyDate(query.date_filter.exact_date)
    /\ ~TruthyDate(query.date_filter.start_date)
    /\ ~TruthyDate(query.date_filter.end_date)

\* C13: a date filter with none of exact_date, start_date, end_date given
\* makes the compilation fail and return no SQL, with the empty-date-filter
\* error when the SELECT part was built; a date filter with one of the three
\* given never fails with that error.
C13_EmptyDateFilter ==
    Finished =>
        /\ EmptyDateFilter =>
              /\ Failed
              /\ result.sql = <<>> /\ result.params = <<>>
              /\ SelectValid => result.err = "date_filter must contain a date"
        /\ (HasDateFilter /\ ~EmptyDateFilter) =>
              result.err # "date_filter must contain a date"

\* A date filter of one empty string and two None, with a creator and an
\* operator that the later stage would refuse.
C13_Witness ==
    /\ Failed
    /\ EmptyDateFilter
    /\ query.date_filter.exact_date = EmptyDate
    /\ query.date_filter.start_date = NoneDate
    /\ HasCreator /\ InvalidOperator
    /\ result.err = "date_filter must contain a date"

\* exact_date is given together with start_date or end_date.
ExactWithBounds ==
    /\ HasDateFilter
    /\ TruthyDate(query.date_filter.exact_date)
    /\ TruthyDate(query.date_filter.start_date) \/ TruthyDate(query.date_filter.end_date)

\* The same request with exact_date alone.
ExactOnly ==
    [query EXCEPT !.date_filter.start_date = NoneDate, !.date_filter.end_date = NoneDate]

\* C20: with exact_date given together with start_date or end_date, the
\* compilation gives the SQL text and the parameters (or the error) of the
\* request with exact_date alone: the bounds add no fragment and no parameter.
C20_ExactDatePrecedence ==
    (Finished /\ ExactWithBounds) =>
        /\ result = build_sql(ExactOnly)
        /\ Cardinality(DateParams) <= 2
        /\ Compiled => \A k \in DateParams : k <= 2

\* exact_date, start_date and end_date all given, compiled to one date
\* equality with one parameter.
C20_Witness ==
    /\ Compiled
    /\ ExactWithBounds
    /\ TruthyDate(query.date_filter.start_date) /\ TruthyDate(query.date_filter.end_date)
    /\ Cardinality(DateParams) = 1
    /\ DateFragment(5) = DateOf(DateColumn) \o <<Op("="), Ph(1)>>

\* The two MetricField values that name no column.
PseudoFields == {"video_created_at_date", "created_at_date"}

UnderlyingColumn(f) ==
    IF f = "video_created_at_date" THEN "video_created_at" ELSE "created_at"

\* The SELECT line: the tokens before the first line break.
SelectLine ==
    LET nl == CHOOSE i \in DOMAIN result.sql :
                  result.sql[i] = NL /\ \A j \in 1..(i - 1) : result.sql[j] # NL
    IN  SubSeq(result.sql, 1, nl - 1)

\* The SELECT line is COUNT(DISTINCT DATE(<underlying column>)) for a
\* pseudo-field and COUNT(DISTINCT <field>) for any other field.
DistinctSelect ==
    LET f == query.metric_field
        sel == SelectLine
    IN  IF f \in PseudoFields
        THEN /\ Len(sel) = 6
             /\ <<sel[1], sel[2], sel[3], sel[5], sel[6]>> =
                    <<Kw("SELECT"), Kw("COUNT(DISTINCT"), Kw("DATE("), Kw(")"), Kw(")")>>
             /\ sel[4].k = "col" /\ sel[4].v = UnderlyingColumn(f)
        ELSE /\ Len(sel) = 4
             /\ <<sel[1], sel[2], sel[4]>> = <<Kw("SELECT"), Kw("COUNT(DISTINCT"), Kw(")")>>
             /\ sel[3].k = "col" /\ sel[3].v = f

NoPseudoColumn ==
    \A i \in DOMAIN result.sql : result.sql[i].k = "col" => result.sql[i].v \notin PseudoFields

\* C14: the SQL of a DISTINCT_COUNT request selects COUNT(DISTINCT <expr>),
\* <expr> being DATE(video_created_at) or DATE(created_at) for the two
\* pseudo-fields and the field's own column otherwise, and no pseudo-field
\* name stands as a column anywhere in the SQL.
C14_DistinctCountSelect ==
    (Compiled /\ query.metric_type = "distinct_count") =>
        /\ DistinctSelect
        /\ NoPseudoColumn

-----------------------------------------------------------------------------
(* Properties of handle_message *)

Done == pc = "done"

Stages == {events[i] : i \in DOMAIN events}

\* A QueryRequest was constructed from the response.
Constructed == query # NoQuery

\* C11: no QueryRequest whose comparison operator is outside
\* {>, <, >=, <=, =, !=} is ever constructed, so none reaches build_sql.
C11_OperatorRejectedAtConstruction ==
    (Constructed /\ query.comparison_filter.present) =>
        query.comparison_filter.operator \in {">", "<", ">=", "<=", "=", "!="}

\* conn.fetchval came back with NULL or with a number.
Fetched == fetched.kind \in {"null", "value"}

IsInt(v) == v.ty = "int"

\* C16: execute_query returns 0 only after fetchval gave NULL or 0, returns
\* an integer only after fetchval gave NULL or that integer, and returns None
\* when build_sql, the pool or fetchval raised; handle_message answers with a
\* number only for an integer, that integer, and with the error text for None.
C16_FailureIsNotZero ==
    /\ exec_result = PInt(0) =>
          /\ result.status = "ok"
          /\ fetched \in {DbAnswer("null", 0), DbAnswer("value", 0)}
    /\ IsInt(exec_result) =>
          /\ result.status = "ok"
          /\ Fetched
          /\ fetched.kind = "value" => exec_result = PInt(fetched.i)
    /\ (Done /\ "build_sql" \in Stages /\ ~(result.status = "ok" /\ Fetched)) =>
          exec_result = PNone
    /\ \A k \in DOMAIN replies :
          replies[k].kind = "number" =>
              IsInt(exec_result) /\ exec_result = PInt(replies[k].n)
    /\ exec_result = PNone => replies = <<ErrorReply("database error")>>
    /\ IsInt(exec_result) => replies = <<NumberReply(exec_result.i)>>

\* The SQL was sent and fetchval raised: None, and the error text.
C16_Witness ==
    /\ Done
    /\ result.status = "ok"
    /\ fetched = DbAnswer("raise", 0)
    /\ exec_result = PNone
    /\ replies = <<ErrorReply("database error")>>

\* The place of a stage in the pipeline.
StageRank(e) ==
    CASE e = "llm" -> 1
      [] e = "json" -> 2
      [] e = "validate" -> 3
      [] e = "build_sql" -> 4
      [] e = "get_pool" -> 5
      [] e = "acquire" -> 6
      [] e = "fetchval" -> 7

\* C17: the stages are entered in the order translate, validate, compile,
\* execute, each at most once but for the second LLM call; when parse_query
\* returns None build_sql is never called, and when build_sql raises no pool
\* is asked, no connection acquired and no SQL sent.
C17_StageOrder ==
    /\ \A i, j \in DOMAIN events :
          i < j => \/ StageRank(events[i]) < StageRank(events[j])
                   \/ events[i] = "llm" /\ events[j] = "llm"
    /\ "build_sql" \in Stages =>
          /\ "validate" \in Stages
          /\ Constructed /\ QueryRequest(query).ok
    /\ ~Constructed =>
          /\ Stages \subseteq {"llm", "json", "validate"}
          /\ result = Pending /\ exec_result = NotReturned
    /\ result.status # "ok" =>
          /\ Stages \cap {"get_pool", "acquire", "fetchval"} = {}
          /\ fetched = NoAnswer
    /\ "get_pool" \in Stages => "build_sql" \in Stages

\* build_sql raised after the second LLM call gave a request: the handler is
\* done and the stages stop at build_sql.
C17_Witness ==
    /\ Done
    /\ result.status = "error"
    /\ events = <<"llm", "llm", "json", "validate", "build_sql">>

\* The message went all the way: a number came back from the database.
Success == IsInt(exec_result)

\* C18: handle_message gives exactly one answer to every message: never more
\* than one, one when it is done, and it gets done; the answer is an error
\* text on every path but the one where the database gave a number.
C18_ExactlyOneReply ==
    /\ [](Len(replies) <= 1)
    /\ [](Done => Len(replies) = 1)
    /\ []((Done /\ ~Success) => (Len(replies) = 1 /\ replies[1].kind = "error"))
    /\ <>Done

\* The response was no valid request: one answer, the error text.
C18_Witness ==
    /\ Done
    /\ response.kind = "text" /\ ~parse_content(response).ok
    /\ replies = <<ErrorReply("could not process the query")>>

\* parse_query did not return a request.
ParseFailed ==
    /\ Done
    /\ Len(llm_calls) >= 1
    /\ llm_calls[Len(llm_calls)].raised \/ ~parse_content(response).ok

\* C19: parse_query makes at most two LLM calls, the second one without
\* response_format and only after the first one raised; when the second call
\* raises too, or the response is empty, is no JSON or is no valid request,
\* it returns None, which handle_message answers, and no exception leaves it.
C19_AtMostTwoCalls ==
    /\ Len(llm_calls) <= 2
    /\ Len(llm_calls) = 2 => (llm_calls[1].raised /\ ~llm_calls[2].response_format)
    /\ ParseFailed =>
          /\ replies = <<ErrorReply("could not process the query")>>
          /\ ~Constructed /\ "build_sql" \notin Stages
    /\ \A k \in DOMAIN replies :
          /\ replies[k] # ErrorReply("internal error")
          /\ replies[k] = ErrorReply("configuration error") => llm_calls = <<>>

\* Both calls raised, and parse_query returned None.
C19_Witness ==
    /\ Done
    /\ Len(llm_calls) = 2
    /\ llm_calls[1].raised /\ llm_calls[2].raised
    /\ replies = <<ErrorReply("could not process the query")>>

-----------------------------------------------------------------------------
(* Properties of concurrent compilations *)

Returned(i) == calls[i].pc = "done"

\* C15: two invocations of build_sql on equal requests, their steps
\* interleaved in any way with each other's and with those of other
\* invocations, return the same SQL text and the same parameters, or raise
\* the same error: what each returns is what it returns when run alone.
C15_Deterministic ==
    /\ \A i, j \in DOMAIN calls :
          (Returned(i) /\ Returned(j) /\ calls[i].q = calls[j].q) =>
              calls[i].result = calls[j].result
    /\ \A i \in DOMAIN calls :
          Returned(i) => calls[i].result = build_sql(calls[i].q)

\* Two invocations on the same request with three filters, the second one
\* returned while the first one is between its filters.
C15_Witness ==
    /\ calls[1].q = calls[2].q
    /\ Len(calls[2].result.params) = 3
    /\ Returned(2)
    /\ calls[1].pc = "creator"

====
